---- MODULE Spec2Model ----
(***************************************************************************)
(* Request pipeline and lifecycle of the HTTP facade in src/src/http/mod.rs *)
(* (jwilm/ycmd-racer).  serve builds an iron Chain around a router, links   *)
(* the logger, the engine store (persistent::Write) and the body limit      *)
(* (persistent::Read of bodyparser::MaxBodyLength), binds a hyper listener  *)
(* and returns a Server handle.  Every accepted request is handled on one   *)
(* worker of the listener's pool.                                           *)
(***************************************************************************)
EXTENDS Integers, Sequences, FiniteSets, TLC

VARIABLES
    config,     \* the Config serve was called with (port, print_http_logs)
    phase,      \* progress of serve: "init", "built", "listening", "bind_failed"
    chain,      \* the iron Chain: before list, after list
    store,      \* Write<EngineProvider>: the engine behind Arc<Mutex<..>>
    installs,   \* how many times an engine was put into the store
    listener,   \* hyper Listening: accepting thread, join guard, socket
    closed,     \* number of close() calls that have returned Ok
    ret,        \* what the last call of serve or close returned to the caller
    req         \* per worker: the request it is handling

vars == <<config, phase, chain, store, installs, listener, closed, ret, req>>

None == "none"

\* Workers of the listener's pool: each handles one request at a time.
Workers == {1, 2}

\* close() calls in one run of the model.
MaxCloses == 2

\* Ports the caller may configure; 0 asks the system for a free port.
Ports == {0, 3000}

\* Ports the system hands out when asked for a free one.
EphemeralPorts == {59369}

\* bodyparser::MaxBodyLength as linked by serve: 1024 * 1024 * 10.
MaxBodyLength == 1024 * 1024 * 10

\* bodyparser's limit when no MaxBodyLength is found in the request.
DefaultBodyLimit == MaxBodyLength * 10

Methods == {"GET", "POST"}

Paths == {"/parse_file", "/find_definition", "/list_completions", "/ping", "/other"}

(* A request body: its length in bytes, the extent of the JSON document at  *)
(* its start (0: the bytes are not JSON; the rest, if any, is whitespace)    *)
(* and what the document asks of the engine.                                 *)
Bodies ==
    { [len |-> 2, json |-> 0, query |-> "none"],
      [len |-> 2, json |-> 2, query |-> "def"],
      [len |-> 2, json |-> 2, query |-> "bad"],
      [len |-> 2, json |-> 2, query |-> "crash"],
      [len |-> MaxBodyLength + 1, json |-> 2, query |-> "def"],
      [len |-> MaxBodyLength + 1, json |-> MaxBodyLength + 1, query |-> "def"] }

\* The requests a client sends: every body on the three engine routes, and a
\* small and an oversize body on every other method and path.
Requests ==
    { rq \in [method : Methods, path : Paths, body : Bodies] :
        \/ rq.body.query = "none"
        \/ rq.body.json > MaxBodyLength
        \/ /\ rq.method = "POST"
           /\ rq.path \in {"/parse_file", "/find_definition", "/list_completions"} }

NoBody == [len |-> 0, json |-> 0, query |-> "none"]

NoContext == [op |-> None, query |-> "none", len |-> 0]

NoResp == [kind |-> "none", status |-> 0, data |-> <<>>]

\* What the client gets when the worker unwinds: the status iron presets
\* (InternalServerError), written when the fresh response is dropped.
Panicked == [kind |-> "panic", status |-> 500, data |-> <<>>]

IdleReq ==
    [pc |-> "idle", method |-> "", path |-> "", body |-> NoBody,
     trace |-> <<>>, ext |-> {}, handler |-> None, read |-> 0,
     ops |-> 0, lines |-> 0, resp |-> NoResp]

----------------------------------------------------------------------------
(* serve: the chain                                                         *)

\* The route table with the ping row left out.
RoutesNoPing ==
    { <<"POST", "/parse_file", "file::parse">>,
      <<"POST", "/find_definition", "definition::find">>,
      <<"POST", "/list_completions", "completion::list">> }

\* router!(post .., post .., post .., get ..): the route table.
Routes ==
    { <<"POST", "/parse_file", "file::parse">>,
      <<"POST", "/find_definition", "definition::find">>,
      <<"POST", "/list_completions", "completion::list">>,
      <<"GET", "/ping", "ping::pong">> }

\* A router that looks at the path only.
RouteByPath(method, path) ==
    IF \E row \in Routes : row[2] = path
    THEN (CHOOSE row \in Routes : row[2] = path)[3]
    ELSE None

\* Router::handle: the handler of the row matching method and path exactly.
Route(method, path) ==
    IF \E row \in Routes : row[1] = method /\ row[2] = path
    THEN (CHOOSE row \in Routes : row[1] = method /\ row[2] = path)[3]
    ELSE None

\* serve with the logger linked after the engine store instead of first.
BeforesLogSecond(print_http_logs) ==
    <<"engine_attach">>
        \o (IF print_http_logs THEN <<"log_before">> ELSE <<>>)
        \o <<"body_limit">>

\* The link_before calls of serve, in order.
Befores(print_http_logs) ==
    (IF print_http_logs THEN <<"log_before">> ELSE <<>>)
        \o <<"engine_attach", "body_limit">>

\* serve linking the logger's after half whatever the configuration says.
AftersAlways(print_http_logs) == <<"log_after">>

\* The link_after calls of serve, in order.
Afters(print_http_logs) ==
    IF print_http_logs THEN <<"log_after">> ELSE <<>>

\* Write::<EngineProvider>::one(Box::new(engine)): the engine in a fresh mutex.
NewStore(engine) ==
    [engine |-> engine, holder |-> 0, poisoned |-> FALSE, scratch |-> NoContext]

NoStore == [engine |-> None, holder |-> 0, poisoned |-> FALSE, scratch |-> NoContext]

NoSocket == [ip |-> "", port |-> 0]

NoListener == [accepting |-> FALSE, guard |-> FALSE, socket |-> NoSocket]

Init ==
    /\ config = [port |-> 0, print_http_logs |-> FALSE]
    /\ phase = "init"
    /\ chain = [befores |-> <<>>, afters |-> <<>>]
    /\ store = NoStore
    /\ installs = 0
    /\ listener = NoListener
    /\ closed = 0
    /\ ret = "none"
    /\ req = [w \in Workers |-> IdleReq]

\* serve without line 121: no engine store is linked into the chain.
ServeChainNoEngine(port, logs) ==
    /\ phase = "init"
    /\ config' = [port |-> port, print_http_logs |-> logs]
    /\ chain' = [befores |-> (IF logs THEN <<"log_before">> ELSE <<>>)
                                \o <<"body_limit">>,
                 afters |-> Afters(logs)]
    /\ phase' = "built"
    /\ UNCHANGED <<store, installs, listener, closed, ret, req>>

\* serve, lines 107-129: build the chain and move the engine into the store.
ServeChain(port, logs) ==
    /\ phase = "init"
    /\ config' = [port |-> port, print_http_logs |-> logs]
    /\ chain' = [befores |-> Befores(logs), afters |-> Afters(logs)]
    /\ store' = NewStore("engine")
    /\ installs' = installs + 1
    /\ phase' = "built"
    /\ UNCHANGED <<listener, closed, ret, req>>

\* serve binding the loopback interface.
HostLoopback(port) == [ip |-> "127.0.0.1", port |-> port]

\* format!("0.0.0.0:{}", config.port): the address serve asks to bind.
Host(port) == [ip |-> "0.0.0.0", port |-> port]

\* The local address of the bound listener: port 0 is replaced by the port
\* the system assigned.
Bind(host, assigned) ==
    [ip |-> host.ip, port |-> IF host.port = 0 THEN assigned ELSE host.port]

\* Display of a socket address: "<ip>:<port>".
FormatSocket(sock) == sock.ip \o ":" \o ToString(sock.port)

\* Server::addr: format!("{}", self.inner.socket).
Addr == FormatSocket(listener.socket)

\* serve that starts the listener and stays in it instead of returning.
ServeHttpBlocking(bound, assigned) ==
    /\ phase = "built"
    /\ IF bound
       THEN /\ phase' = "listening"
            /\ listener' = [accepting |-> TRUE, guard |-> TRUE,
                            socket |-> Bind(Host(config.port), assigned)]
            /\ UNCHANGED ret
       ELSE /\ phase' = "bind_failed"
            /\ ret' = "Err(HttpServer)"
            /\ UNCHANGED listener
    /\ UNCHANGED <<config, chain, store, installs, closed, req>>

\* serve that takes a failed bind for a started server.
ServeHttpBindErrorLost(bound, assigned) ==
    /\ phase = "built"
    /\ IF bound
       THEN /\ phase' = "listening"
            /\ listener' = [accepting |-> TRUE, guard |-> TRUE,
                            socket |-> Bind(Host(config.port), assigned)]
       ELSE /\ phase' = "bind_failed"
            /\ UNCHANGED listener
    /\ ret' = "Ok(Server)"
    /\ UNCHANGED <<config, chain, store, installs, closed, req>>

\* serve, lines 131-136: Iron::new(chain).http(host); the listener thread is
\* started and Ok(Server) returned, or the bind error is returned.
ServeHttp(bound, assigned) ==
    /\ phase = "built"
    /\ IF bound
       THEN /\ phase' = "listening"
            /\ listener' = [accepting |-> TRUE, guard |-> TRUE,
                            socket |-> Bind(Host(config.port), assigned)]
            /\ ret' = "Ok(Server)"
       ELSE /\ phase' = "bind_failed"
            /\ ret' = "Err(HttpServer)"
            /\ UNCHANGED listener
    /\ UNCHANGED <<config, chain, store, installs, closed, req>>

----------------------------------------------------------------------------
(* One request through the chain                                            *)

\* The befores with a body-limit entry that leaves no MaxBodyLength behind.
ApplyBeforeNoLimit(mw, r) ==
    LET seen == [r EXCEPT !.trace = Append(@, mw)]
    IN CASE mw = "log_before"    -> [seen EXCEPT !.ext = @ \cup {"start_time"}]
         [] mw = "engine_attach" -> [seen EXCEPT !.ext = @ \cup {"engine"}]
         [] OTHER                -> seen

\* BeforeMiddleware::before of each linked middleware; none of them fails.
\* The logger's records the start time, the others put their value into the
\* request.
ApplyBefore(mw, r) ==
    LET seen == [r EXCEPT !.trace = Append(@, mw)]
    IN CASE mw = "log_before"    -> [seen EXCEPT !.ext = @ \cup {"start_time"}]
         [] mw = "engine_attach" -> [seen EXCEPT !.ext = @ \cup {"engine"}]
         [] mw = "body_limit"    -> [seen EXCEPT !.ext = @ \cup {"max_body_length"}]
         [] OTHER                -> seen

\* Chain::continue_from_before: the befores in list order.
RECURSIVE RunBefores(_, _)
RunBefores(befores, r) ==
    IF befores = <<>> THEN r
    ELSE RunBefores(Tail(befores), ApplyBefore(Head(befores), r))

\* A logger that is run on responses only, not on errors.
ApplyAfterOkOnly(mw, r) ==
    IF r.resp.kind = "err" THEN r
    ELSE [r EXCEPT !.trace = Append(@, mw), !.lines = @ + 1]

\* AfterMiddleware::after (kind "ok") or ::catch (kind "err") of the logger:
\* it writes the request's log line.
ApplyAfter(mw, r) == [r EXCEPT !.trace = Append(@, mw), !.lines = @ + 1]

\* Chain::continue_from_after / fail_from_after: the afters in list order.
RECURSIVE RunAfters(_, _)
RunAfters(afters, r) ==
    IF afters = <<>> THEN r
    ELSE RunAfters(Tail(afters), ApplyAfter(Head(afters), r))

\* The limit bodyparser reads under: the linked MaxBodyLength, else its default.
BodyLimit(ext) ==
    IF "max_body_length" \in ext THEN MaxBodyLength ELSE DefaultBodyLimit

\* bodyparser: at most limit bytes of the body are read.
ReadBody(body, limit) == IF body.len <= limit THEN body.len ELSE limit

\* The bytes read decode iff they hold the whole JSON document.
Decodes(body, read) == body.json > 0 /\ body.json <= read

\* What the engine is asked: the operation of the route and the decoded body.
Context(r) == [op |-> r.handler, query |-> r.body.query, len |-> r.body.len]

\* The engine's answer to the context it has in hand.
EngineResult(ctx) == <<ctx.op, ctx.query, ctx.len>>

Ok(status, data) == [kind |-> "ok", status |-> status, data |-> data]

Err(status) == [kind |-> "err", status |-> status, data |-> <<>>]

\* hyper accepts a connection and hands the parsed request to a free worker.
Accept(w, rq) ==
    /\ listener.accepting
    /\ req[w].pc = "idle"
    /\ req' = [req EXCEPT ![w] =
                 [IdleReq EXCEPT !.pc = "before", !.method = rq.method,
                                 !.path = rq.path, !.body = rq.body]]
    /\ UNCHANGED <<config, phase, chain, store, installs, listener, closed, ret>>

\* An engine-attach that makes an engine of its own for the request.
BeforeNewEngine(w) ==
    /\ req[w].pc = "before"
    /\ req' = [req EXCEPT ![w] =
                 [RunBefores(chain.befores, req[w]) EXCEPT !.pc = "route"]]
    /\ store' = [store EXCEPT !.engine = "engine for the request"]
    /\ installs' = installs + 1
    /\ UNCHANGED <<config, phase, chain, listener, closed, ret>>

\* A chain that looks print_http_logs up in the caller's Config on each request.
BeforeReadsConfig(w) ==
    /\ req[w].pc = "before"
    /\ req' = [req EXCEPT ![w] =
                 [RunBefores(Befores(config.print_http_logs), req[w])
                     EXCEPT !.pc = "route"]]
    /\ UNCHANGED <<config, phase, chain, store, installs, listener, closed, ret>>

\* A chain that goes to the router without running its befores.
BeforeSkipped(w) ==
    /\ req[w].pc = "before"
    /\ req' = [req EXCEPT ![w].pc = "route"]
    /\ UNCHANGED <<config, phase, chain, store, installs, listener, closed, ret>>

\* Chain::handle: every linked before-middleware, then on to the router.
Before(w) ==
    /\ req[w].pc = "before"
    /\ req' = [req EXCEPT ![w] =
                 [RunBefores(chain.befores, req[w]) EXCEPT !.pc = "route"]]
    /\ UNCHANGED <<config, phase, chain, store, installs, listener, closed, ret>>

\* The handler up to its use of the engine: ping answers at once, the others
\* read and decode the body and go on to the engine only if it decodes.
HandlerStart(r) ==
    IF r.handler = "ping::pong"
    THEN [r EXCEPT !.pc = "after", !.resp = Ok(200, <<"pong">>)]
    ELSE LET n == ReadBody(r.body, BodyLimit(r.ext))
         IN IF Decodes(r.body, n)
            THEN [r EXCEPT !.pc = "lock", !.read = n]
            ELSE [r EXCEPT !.pc = "after", !.read = n, !.resp = Err(400)]

\* Router::handle: no matching row is NoRoute (404), else the row's handler.
Dispatch(w) ==
    /\ req[w].pc = "route"
    /\ LET h == Route(req[w].method, req[w].path)
           r == [req[w] EXCEPT !.trace = Append(@, "router")]
       IN req' = [req EXCEPT ![w] =
                    IF h = None
                    THEN [r EXCEPT !.pc = "after", !.resp = Err(404)]
                    ELSE HandlerStart([r EXCEPT !.handler = h])]
    /\ UNCHANGED <<config, phase, chain, store, installs, listener, closed, ret>>

\* A store that hands the engine out without waiting for its holder.
LockFreeAlways(s) == TRUE

\* Mutex::lock returns only when no other holder has the engine.
LockFree(s) == s.holder = 0

\* The handler takes the engine out of the request and locks it: an absent
\* engine or a poisoned lock unwinds the worker, past the after phase; else
\* it hands the engine its context.
Lock(w) ==
    /\ req[w].pc = "lock"
    /\ IF "engine" \notin req[w].ext \/ store.engine = None
       THEN /\ req' = [req EXCEPT ![w] = [@ EXCEPT !.pc = "aborted", !.resp = Panicked]]
            /\ UNCHANGED store
       ELSE /\ LockFree(store)
            /\ IF store.poisoned
               THEN /\ req' = [req EXCEPT ![w] =
                                 [@ EXCEPT !.pc = "aborted", !.resp = Panicked]]
                    /\ UNCHANGED store
               ELSE /\ req' = [req EXCEPT ![w].pc = "engine"]
                    /\ store' = [store EXCEPT !.holder = w,
                                              !.scratch = Context(req[w])]
    /\ UNCHANGED <<config, phase, chain, installs, listener, closed, ret>>

\* The engine operation returns: the handler drops the lock and answers.
EngineReturn(w) ==
    /\ req[w].pc = "engine"
    /\ req[w].body.query # "crash"
    /\ req' = [req EXCEPT ![w] =
                 [@ EXCEPT !.pc = "after", !.ops = @ + 1,
                           !.resp = IF req[w].body.query = "def"
                                    THEN Ok(200, EngineResult(store.scratch))
                                    ELSE Err(500)]]
    /\ store' = [store EXCEPT !.holder = 0, !.scratch = NoContext]
    /\ UNCHANGED <<config, phase, chain, installs, listener, closed, ret>>

\* The engine operation panics: the worker unwinds with the lock held, which
\* poisons the mutex; the chain never gets a response to run its afters on.
EnginePanic(w) ==
    /\ req[w].pc = "engine"
    /\ req[w].body.query = "crash"
    /\ req' = [req EXCEPT ![w] = [@ EXCEPT !.pc = "aborted", !.ops = @ + 1,
                                            !.resp = Panicked]]
    /\ store' = [store EXCEPT !.holder = 0, !.scratch = NoContext, !.poisoned = TRUE]
    /\ UNCHANGED <<config, phase, chain, installs, listener, closed, ret>>

\* An after phase that ends the accept loop when it sees an error.
AfterStopsListener(w) ==
    /\ req[w].pc = "after"
    /\ req' = [req EXCEPT ![w] =
                 [RunAfters(chain.afters, req[w]) EXCEPT !.pc = "done"]]
    /\ listener' = [listener EXCEPT
                      !.accepting = @ /\ req[w].resp.kind # "err"]
    /\ UNCHANGED <<config, phase, chain, store, installs, closed, ret>>

\* Chain: every linked after-middleware, on the response or on the error.
After(w) ==
    /\ req[w].pc = "after"
    /\ req' = [req EXCEPT ![w] =
                 [RunAfters(chain.afters, req[w]) EXCEPT !.pc = "done"]]
    /\ UNCHANGED <<config, phase, chain, store, installs, listener, closed, ret>>

\* A worker that keeps the finished request's context for its next one.
FinishKeepsContext(w) ==
    /\ req[w].pc \in {"done", "aborted"}
    /\ req' = [req EXCEPT ![w] = [IdleReq EXCEPT !.ext = req[w].ext]]
    /\ UNCHANGED <<config, phase, chain, store, installs, listener, closed, ret>>

\* The response is written and the worker is free for the next connection.
Finish(w) ==
    /\ req[w].pc \in {"done", "aborted"}
    /\ req' = [req EXCEPT ![w] = IdleReq]
    /\ UNCHANGED <<config, phase, chain, store, installs, listener, closed, ret>>

\* Server::close: hyper's Listening::close gives up the join guard and
\* returns Ok; the accepting thread is left running.
Close ==
    /\ phase = "listening"
    /\ closed < MaxCloses
    /\ listener' = [listener EXCEPT !.guard = FALSE]
    /\ closed' = closed + 1
    /\ ret' = "Ok(())"
    /\ UNCHANGED <<config, phase, chain, store, installs, req>>

Next ==
    \/ \E port \in Ports, logs \in BOOLEAN : ServeChain(port, logs)
    \/ \E bound \in BOOLEAN, assigned \in EphemeralPorts : ServeHttp(bound, assigned)
    \/ \E w \in Workers, rq \in Requests : Accept(w, rq)
    \/ \E w \in Workers : Before(w)
    \/ \E w \in Workers : Dispatch(w)
    \/ \E w \in Workers : Lock(w)
    \/ \E w \in Workers : EngineReturn(w)
    \/ \E w \in Workers : EnginePanic(w)
    \/ \E w \in Workers : After(w)
    \/ \E w \in Workers : Finish(w)
    \/ Close

Spec == Init /\ [][Next]_vars

----------------------------------------------------------------------------
(* Properties                                                               *)

Range(seq) == { seq[i] : i \in 1..Len(seq) }

Oversize(r) == r.body.len > MaxBodyLength

Responded(r) == r.pc \in {"after", "done"}

ClientError(resp) == resp.status >= 400 /\ resp.status <= 499

C3_MiddlewareOrder ==
    \A w \in Workers :
        /\ req[w].pc \notin {"idle", "before"}
             => IF config.print_http_logs
                THEN /\ Len(req[w].trace) >= 3
                     /\ SubSeq(req[w].trace, 1, 3)
                          = <<"log_before", "engine_attach", "body_limit">>
                ELSE /\ Len(req[w].trace) >= 2
                     /\ SubSeq(req[w].trace, 1, 2) = <<"engine_attach", "body_limit">>
                     /\ "log_before" \notin Range(req[w].trace)
        /\ (req[w].pc = "done" /\ config.print_http_logs)
             => req[w].trace[Len(req[w].trace)] = "log_after"

C3_Witness ==
    \E w \in Workers :
        /\ config.print_http_logs
        /\ req[w].pc = "done"
        /\ req[w].trace = <<"log_before", "engine_attach", "body_limit",
                            "router", "log_after">>

Expected(r) ==
    LET row == { x \in Routes : x[1] = r.method /\ x[2] = r.path }
        h == IF row = {} THEN None ELSE (CHOOSE x \in row : TRUE)[3]
        cut == IF r.body.len > MaxBodyLength THEN MaxBodyLength ELSE r.body.len
    IN IF h = None THEN Err(404)
       ELSE IF h = "ping::pong" THEN Ok(200, <<"pong">>)
       ELSE IF r.body.json = 0 \/ r.body.json > cut THEN Err(400)
       ELSE IF r.body.query = "def" THEN Ok(200, <<h, r.body.query, r.body.len>>)
       ELSE IF r.body.query = "bad" THEN Err(500)
       ELSE Panicked

C5_EngineInstalledOnceBeforeAccept ==
    /\ installs <= 1
    /\ (listener.accepting \/ \E w \in Workers : req[w].pc # "idle")
         => /\ installs = 1
            /\ store.engine = "engine"
    /\ \A w \in Workers :
         req[w].pc \notin {"idle", "before"} => "engine" \in req[w].ext

C5_Witness ==
    \E w \in Workers :
        /\ req[w].pc = "engine"
        /\ "engine" \in req[w].ext
        /\ store.engine = "engine"
        /\ installs = 1
        /\ listener.accepting

\* C6 as stated: the store does no locking of its own, so a request that is
\* about to use the engine never has to wait for another request to finish
\* with it.
C6_EngineAccessNeverWaits ==
    \A w \in Workers : req[w].pc = "lock" => store.holder = 0

\* C6 amended: the store keeps the engine behind a mutex: at most one request
\* is using the engine at any time, it is the holder of the lock, and the
\* other requests that need the engine wait for it.
C6_EngineAccessIsExclusive ==
    /\ Cardinality({ w \in Workers : req[w].pc = "engine" }) <= 1
    /\ \A w \in Workers : req[w].pc = "engine" <=> store.holder = w

C6_Witness ==
    \E w, v \in Workers :
        /\ req[w].pc = "engine"
        /\ store.holder = w
        /\ req[v].pc = "lock"

C9_RouteAfterBefores ==
    \A w \in Workers :
        /\ "router" \in Range(req[w].trace)
             => /\ Len(req[w].trace) > Len(chain.befores)
                /\ SubSeq(req[w].trace, 1, Len(chain.befores)) = chain.befores
                /\ req[w].trace[Len(chain.befores) + 1] = "router"
                /\ {"engine", "max_body_length"} \subseteq req[w].ext
        /\ req[w].pc \notin {"idle", "before", "route"}
             => "router" \in Range(req[w].trace)

C9_Witness ==
    \E w \in Workers :
        /\ req[w].pc = "done"
        /\ req[w].resp = Err(404)
        /\ req[w].trace[Len(chain.befores) + 1] = "router"
        /\ {"engine", "max_body_length"} \subseteq req[w].ext

\* C10 as stated: once close() has returned Ok no new connection is accepted,
\* and the requests in flight at that time are left to run.
C10_NoAcceptAfterClose ==
    [][closed > 0 =>
         /\ \A w \in Workers : ~(req[w].pc = "idle" /\ req'[w].pc = "before")
         /\ \A w \in Workers :
              (req[w].pc \notin {"idle", "done", "aborted"})
                  => req'[w].pc # "idle"]_vars

----------------------------------------------------------------------------
(* Concurrent requests whose engine operations all return                   *)

\* The requests on which no engine operation panics.
ReturningRequests == { rq \in Requests : rq.body.query # "crash" }

\* Each worker takes one request; no engine operation panics.
NextReturning ==
    \/ \E port \in Ports, logs \in BOOLEAN : ServeChain(port, logs)
    \/ \E bound \in BOOLEAN, assigned \in EphemeralPorts : ServeHttp(bound, assigned)
    \/ \E w \in Workers, rq \in ReturningRequests : Accept(w, rq)
    \/ \E w \in Workers : Before(w)
    \/ \E w \in Workers : Dispatch(w)
    \/ \E w \in Workers : Lock(w)
    \/ \E w \in Workers : EngineReturn(w)
    \/ \E w \in Workers : After(w)
    \/ Close

\* A worker that can take its next step takes it; an engine operation that
\* has been started returns.
Fairness ==
    \A w \in Workers :
        /\ WF_vars(Before(w))
        /\ WF_vars(Dispatch(w))
        /\ WF_vars(Lock(w))
        /\ WF_vars(EngineReturn(w))
        /\ WF_vars(After(w))

LiveSpec == Init /\ [][NextReturning]_vars /\ Fairness

----------------------------------------------------------------------------
(* Lifecycle: close, bind failure, address                                  *)

\* C11 as stated: a second close() on a handle whose first close() succeeded
\* does not panic, returns Ok or a defined error, and leaves the server not
\* accepting.
C11_SecondCloseLeavesNotAccepting ==
    closed >= 2 => /\ ret \in {"Ok(())", "Err(HttpServer)"}
                   /\ ~listener.accepting

\* C12: when the bind fails serve returns Err(Error::HttpServer), there is no
\* Server handle and no connection is ever accepted; an error reaches the
\* caller from serve or close only, and every request, however it fails,
\* ends in an HTTP response.
C12_OnlyLifecycleErrorsReachCaller ==
    /\ ret \in {"none", "Ok(Server)", "Err(HttpServer)", "Ok(())"}
    /\ phase = "bind_failed"
         => /\ ret = "Err(HttpServer)"
            /\ listener = NoListener
            /\ \A w \in Workers : req[w] = IdleReq
    /\ ret = "Err(HttpServer)" => phase = "bind_failed" /\ closed = 0
    /\ \A w \in Workers :
         req[w].pc \in {"done", "aborted"}
             => req[w].resp.status \in {200, 400, 404, 500}

C12_Witness ==
    /\ phase = "bind_failed"
    /\ ret = "Err(HttpServer)"
    /\ ~listener.accepting
    /\ \A w \in Workers : req[w].pc = "idle"


\* C13 as stated: for every configured port P for which serve succeeds,
\* addr() is "0.0.0.0:" followed by P.
C13_AddrIsConfiguredPort ==
    phase = "listening" => Addr = "0.0.0.0:" \o ToString(config.port)

\* C13 amended: for every configured port P other than 0 for which serve
\* succeeds, addr() is "0.0.0.0:" followed by P ("0.0.0.0:3000" for 3000);
\* for port 0 it is "0.0.0.0:" followed by the port the system assigned.
C13_AddrIsBoundPort ==
    phase = "listening"
        => /\ config.port = 3000 => Addr = "0.0.0.0:3000"
           /\ config.port # 0 => Addr = "0.0.0.0:" \o ToString(config.port)
           /\ config.port = 0
                => /\ Addr # "0.0.0.0:0"
                   /\ \E p \in EphemeralPorts : Addr = "0.0.0.0:" \o ToString(p)

C13_Witness ==
    /\ phase = "listening"
    /\ ret = "Ok(Server)"
    /\ config.port = 3000
    /\ Addr = "0.0.0.0:3000"


\* C14: serve does not block: once the chain is built and the listener
\* started it has returned, a handle or an error, whether or not any
\* connection has come in; after a successful return the server accepts
\* connections while the caller goes on, as long as close has not been called.
C14_ServeDoesNotBlock ==
    /\ phase \in {"listening", "bind_failed"} => ret # "none"
    /\ listener.accepting => ret \in {"Ok(Server)", "Ok(())"}
    /\ (\E w \in Workers : req[w].pc # "idle") => ret \in {"Ok(Server)", "Ok(())"}
    /\ (phase = "listening" /\ closed = 0)
         => listener.accepting /\ ret = "Ok(Server)"

C14_Witness ==
    /\ ret = "Ok(Server)"
    /\ closed = 0
    /\ listener.accepting
    /\ \E w \in Workers : req[w].pc = "before"
    /\ \E w \in Workers : req[w].pc = "idle"


\* C15: in every state of a running server, also after requests have failed
\* and the engine has panicked, GET /ping goes to the ping handler and gets
\* the constant success response, with no engine operation and no use of the
\* engine lock.
C15_PingAlwaysSucceeds ==
    \A w \in Workers :
        (req[w].method = "GET" /\ req[w].path = "/ping"
           /\ req[w].pc \notin {"idle", "before", "route"})
            => /\ req[w].handler = "ping::pong"
               /\ req[w].pc \in {"after", "done"}
               /\ req[w].resp = Ok(200, <<"pong">>)
               /\ req[w].ops = 0
               /\ req[w].read = 0
               /\ store.holder # w

C15_Witness ==
    \E w \in Workers :
        /\ store.poisoned
        /\ req[w].method = "GET" /\ req[w].path = "/ping"
        /\ req[w].pc = "done"
        /\ req[w].resp = Ok(200, <<"pong">>)


----------------------------------------------------------------------------
(* Engine, logging, pipeline, listener and configuration                    *)

\* C16: a server has exactly one engine, the one passed to serve: every
\* handler invocation works on it for as long as the server lives, and the
\* before phase with its engine-attach leaves the store as it found it: it
\* creates, replaces and changes nothing.
C16_OneEngineForTheServer ==
    /\ [](\A w \in Workers :
            req[w].pc = "engine" => store.engine = "engine" /\ installs = 1)
    /\ [][/\ phase # "init"
             => store'.engine = store.engine /\ installs' = installs
          /\ (\E w \in Workers : req[w].pc = "before" /\ req'[w].pc # "before")
             => store' = store]_vars

C16_Witness ==
    \E w, v \in Workers :
        /\ req[w].pc = "engine"
        /\ store.holder = w
        /\ store.engine = "engine"
        /\ req[v].pc = "done"
        /\ req[v].ops = 1


\* C17 as stated: with print_http_logs every handled request produces one log
\* event in its before phase and one in its after phase; without it no
\* request produces any.
C17_LogEventBeforeAndAfter ==
    \A w \in Workers :
        IF config.print_http_logs
        THEN /\ req[w].pc \in {"route", "lock", "engine", "after"}
                  => req[w].lines = 1
             /\ req[w].pc = "done" => req[w].lines = 2
        ELSE req[w].lines = 0

\* C17 amended: with print_http_logs every request whose handler returns
\* produces exactly one log line, written in its after phase (the before
\* phase only records the start time), and a request whose handler panics
\* produces none; without it no logging middleware is in the chain and no
\* request produces a log line.  The before phase, engine-attach and
\* body-size-limit included, changes nothing but the request it runs on.
C17_OneLogLineAfter ==
    /\ [](\A w \in Workers :
            /\ req[w].lines = IF config.print_http_logs /\ req[w].pc = "done"
                              THEN 1 ELSE 0
            /\ (config.print_http_logs /\ req[w].pc \notin {"idle", "before"})
                 => "start_time" \in req[w].ext
            /\ (~config.print_http_logs /\ phase # "init")
                 => /\ "log_before" \notin Range(chain.befores)
                    /\ chain.afters = <<>>)
    /\ [][(\E w \in Workers : req[w].pc = "before" /\ req'[w].pc # "before")
            => /\ UNCHANGED <<config, phase, chain, store, installs,
                              listener, closed, ret>>
               /\ \A v \in Workers : req[v].pc # "before" => req'[v] = req[v]]_vars

C17_Witness ==
    \E w \in Workers :
        /\ config.print_http_logs
        /\ req[w].pc = "done"
        /\ req[w].lines = 1
        /\ "start_time" \in req[w].ext
        /\ req[w].trace[Len(req[w].trace)] = "log_after"


C19_ListenerChangedByHandleOnly ==
    [][/\ req' # req => listener' = listener
       /\ listener' # listener
            => \/ phase = "built" /\ phase' = "listening"
               \/ closed' = closed + 1
       /\ phase = "listening" => listener'.socket = listener.socket
       /\ (listener.accepting /\ ~listener'.accepting)
            => closed' = closed + 1]_vars

C19_Witness ==
    \E w, v \in Workers :
        /\ req[w].pc = "aborted"
        /\ req[v].pc = "done" /\ req[v].resp = Err(404)
        /\ listener.accepting
        /\ listener.guard
        /\ Addr = "0.0.0.0:3000"


----------------------------------------------------------------------------
(* A caller that changes its Config after serve has returned                *)

\* serve borrows the Config (config: &Config); when serve has returned the
\* borrow has ended and the caller is free to change its Config.
SetConfig(port, logs) ==
    /\ phase \in {"listening", "bind_failed"}
    /\ config' = [port |-> port, print_http_logs |-> logs]
    /\ config' # config
    /\ UNCHANGED <<phase, chain, store, installs, listener, closed, ret, req>>

\* One request of each outcome: pong, a definition, an engine panic, no route.
ProbeRequests ==
    { rq \in Requests :
        /\ rq.body.len <= MaxBodyLength
        /\ \/ rq.method = "GET" /\ rq.path \in {"/ping", "/other"}
           \/ /\ rq.path = "/find_definition"
              /\ rq.body.query \in {"def", "crash"} }

NextConfig ==
    \/ \E port \in Ports, logs \in BOOLEAN : ServeChain(port, logs)
    \/ \E bound \in BOOLEAN, assigned \in EphemeralPorts : ServeHttp(bound, assigned)
    \/ \E port \in Ports, logs \in BOOLEAN : SetConfig(port, logs)
    \/ \E w \in Workers, rq \in ProbeRequests : Accept(w, rq)
    \/ \E w \in Workers : Before(w)
    \/ \E w \in Workers : Dispatch(w)
    \/ \E w \in Workers : Lock(w)
    \/ \E w \in Workers : EngineReturn(w)
    \/ \E w \in Workers : EnginePanic(w)
    \/ \E w \in Workers : After(w)
    \/ \E w \in Workers : Finish(w)
    \/ Close

ConfigSpec == Init /\ [][NextConfig]_vars

\* C20: the middleware chain and the route table are fixed when serve
\* returns: whatever the caller's Config says later, every request runs the
\* before list and the after list serve built and is dispatched by the
\* router's table, and after serve no step, a change of the Config included,
\* changes the chain or the bound address.
C20_ChainFixedWhenServeReturns ==
    /\ [](\A w \in Workers :
            LET t == req[w].trace
                n == Len(chain.befores)
            IN /\ req[w].pc \in {"route", "lock", "engine", "after", "done", "aborted"}
                    => Len(t) >= n /\ SubSeq(t, 1, n) = chain.befores
               /\ req[w].pc = "done"
                    => /\ t = chain.befores \o <<"router">> \o chain.afters
                       /\ req[w].handler = Route(req[w].method, req[w].path))
    /\ [][/\ phase # "init" => chain' = chain
          /\ phase = "listening" => listener'.socket = listener.socket
          /\ (phase # "init" /\ config' # config)
               => UNCHANGED <<phase, chain, store, installs, listener,
                              closed, ret, req>>]_vars

C20_Witness ==
    \E w, v \in Workers :
        /\ phase = "listening"
        /\ config.print_http_logs # ("log_before" \in Range(chain.befores))
        /\ config.port = 3000 /\ listener.socket.port = 59369
        /\ req[w].pc = "done"
        /\ req[w].trace = chain.befores \o <<"router">> \o chain.afters
        /\ req[v].pc = "before"

====
